---- MODULE Spec2Model ----
(***************************************************************************)
(* Model of the Elyx Member Journey API (src/main.py): the journey store    *)
(* MESSAGES loaded once at import, and the endpoints that read it.          *)
(*                                                                         *)
(* Text is modelled as a sequence of one-character strings, so that         *)
(* str.lower, the substring test `word in content`, strftime and strptime   *)
(* are computed character by character.                                     *)
(***************************************************************************)
EXTENDS Integers, Sequences, FiniteSets, TLC

VARIABLES
    source,     \* contents of journey_data.json as found at import time
    MESSAGES,   \* the module-level store (main.py line 88)
    pc,         \* "import" while the module body runs, then "serving"
    response    \* the outcome of the last endpoint call

vars == <<source, MESSAGES, pc, response>>

\* Longest source file (number of records) the model explores.
MaxLen == 3

(***************************************************************************)
(* Python values                                                            *)
(***************************************************************************)

\* Optional[T]: None is the empty tuple, a present value x is <<x>>.
None == <<>>

Some(x) == <<x>>

\* The result of an expression that may raise: exc = "" means it returned val.
Raise(e) == [exc |-> e]

Return(v) == [exc |-> "", val |-> v]

Raised(r) == r.exc # ""

(***************************************************************************)
(* str operations                                                           *)
(***************************************************************************)

UpperToLower ==
    "A" :> "a" @@ "B" :> "b" @@ "C" :> "c" @@ "D" :> "d" @@ "E" :> "e" @@
    "F" :> "f" @@ "G" :> "g" @@ "H" :> "h" @@ "I" :> "i" @@ "J" :> "j" @@
    "K" :> "k" @@ "L" :> "l" @@ "M" :> "m" @@ "N" :> "n" @@ "O" :> "o" @@
    "P" :> "p" @@ "Q" :> "q" @@ "R" :> "r" @@ "S" :> "s" @@ "T" :> "t" @@
    "U" :> "u" @@ "V" :> "v" @@ "W" :> "w" @@ "X" :> "x" @@ "Y" :> "y" @@
    "Z" :> "z"

\* str.lower()
lower(s) ==
    [i \in 1..Len(s) |->
        IF s[i] \in DOMAIN UpperToLower THEN UpperToLower[s[i]] ELSE s[i]]

\* `word in content` for two strings: word occurs as a contiguous substring.
StrIn(word, content) ==
    \E i \in 1..(Len(content) - Len(word) + 1) :
        SubSeq(content, i, i + Len(word) - 1) = word

DigitChars == <<"0", "1", "2", "3", "4", "5", "6", "7", "8", "9">>

IsDigit(c) == \E d \in 1..Len(DigitChars) : DigitChars[d] = c

DigitOf(c) == (CHOOSE d \in 1..Len(DigitChars) : DigitChars[d] = c) - 1

IsSpace(c) == c \in {" ", "\t"}

\* Code-point order of the characters a '%Y-%m' key is made of ('-' < '0' < ... < '9').
Ord(c) == IF c = "-" THEN 0 ELSE DigitOf(c) + 1

\* Python's str < str: lexicographic by code point, a proper prefix is smaller.
RECURSIVE StrLess(_, _)
StrLess(a, b) ==
    IF b = <<>> THEN FALSE
    ELSE IF a = <<>> THEN TRUE
    ELSE IF Ord(Head(a)) # Ord(Head(b)) THEN Ord(Head(a)) < Ord(Head(b))
    ELSE StrLess(Tail(a), Tail(b))

(***************************************************************************)
(* datetime.strftime / datetime.strptime (C locale)                         *)
(***************************************************************************)

month_name == <<
    <<"J","a","n","u","a","r","y">>,
    <<"F","e","b","r","u","a","r","y">>,
    <<"M","a","r","c","h">>,
    <<"A","p","r","i","l">>,
    <<"M","a","y">>,
    <<"J","u","n","e">>,
    <<"J","u","l","y">>,
    <<"A","u","g","u","s","t">>,
    <<"S","e","p","t","e","m","b","e","r">>,
    <<"O","c","t","o","b","e","r">>,
    <<"N","o","v","e","m","b","e","r">>,
    <<"D","e","c","e","m","b","e","r">> >>

month_abbr == <<
    <<"J","a","n">>, <<"F","e","b">>, <<"M","a","r">>, <<"A","p","r">>,
    <<"M","a","y">>, <<"J","u","n">>, <<"J","u","l">>, <<"A","u","g">>,
    <<"S","e","p">>, <<"O","c","t">>, <<"N","o","v">>, <<"D","e","c">> >>

\* A datetime value; strptime fills the fields its format lacks with day 1, hour 0.
datetime(y, m, d, h) == [year |-> y, month |-> m, day |-> d, hour |-> h]

\* '%Y' for a year of four digits, and '%m'.
FormatY(y) ==
    << DigitChars[((y \div 1000) % 10) + 1], DigitChars[((y \div 100) % 10) + 1],
       DigitChars[((y \div 10) % 10) + 1], DigitChars[(y % 10) + 1] >>

Format_m(m) == << DigitChars[((m \div 10) % 10) + 1], DigitChars[(m % 10) + 1] >>

\* ts.strftime('%B %Y')
strftime_B_Y(ts) == month_name[ts.month] \o <<" ">> \o FormatY(ts.year)

\* ts.strftime('%Y-%m')
strftime_Y_m(ts) == FormatY(ts.year) \o <<"-">> \o Format_m(ts.month)

\* ts.strftime('%b %Y')
strftime_b_Y(ts) == month_abbr[ts.month] \o <<" ">> \o FormatY(ts.year)

\* The value of a run of digit characters.
RECURSIVE ToInt(_)
ToInt(ds) ==
    IF ds = <<>> THEN 0
    ELSE 10 * ToInt(SubSeq(ds, 1, Len(ds) - 1)) + DigitOf(ds[Len(ds)])

AllDigits(ds) == \A i \in 1..Len(ds) : IsDigit(ds[i])

\* Number of whitespace characters s starts with.
LeadingSpaces(s) ==
    CHOOSE k \in 0..Len(s) :
        /\ \A i \in 1..k : IsSpace(s[i])
        /\ k = Len(s) \/ ~IsSpace(s[k + 1])

\* datetime.strptime(s, '%B %Y'): a full month name in any letter case, one or
\* more whitespace characters, exactly four digits, and nothing after them.
strptime_B_Y(s) ==
    LET ls   == lower(s)
        cand == {m \in 1..12 :
                    /\ Len(s) >= Len(month_name[m])
                    /\ SubSeq(ls, 1, Len(month_name[m])) = lower(month_name[m])}
    IN  IF cand = {} THEN Raise("ValueError")
        ELSE
            LET m    == CHOOSE x \in cand : TRUE
                rest == SubSeq(s, Len(month_name[m]) + 1, Len(s))
                ws   == LeadingSpaces(rest)
                tail == SubSeq(rest, ws + 1, Len(rest))
            IN  IF ws = 0 \/ Len(tail) < 4 \/ ~AllDigits(SubSeq(tail, 1, 4))
                    THEN Raise("ValueError")      \* does not match format
                ELSE IF Len(tail) > 4
                    THEN Raise("ValueError")      \* unconverted data remains
                ELSE IF ToInt(tail) = 0
                    THEN Raise("ValueError")      \* year 0 is out of range
                ELSE Return(datetime(ToInt(tail), m, 1, 0))

\* datetime.strptime(s, '%Y-%m'): four digits, '-', a month number 1..12 of one
\* or two digits, and nothing after it.
strptime_Y_m(s) ==
    IF Len(s) < 6 \/ ~AllDigits(SubSeq(s, 1, 4)) \/ s[5] # "-"
        THEN Raise("ValueError")
    ELSE
        LET tail == SubSeq(s, 6, Len(s))
        IN  IF Len(tail) > 2 \/ ~AllDigits(tail) \/ ToInt(tail) \notin 1..12
                \/ ToInt(SubSeq(s, 1, 4)) = 0
                THEN Raise("ValueError")
            ELSE Return(datetime(ToInt(SubSeq(s, 1, 4)), ToInt(tail), 1, 0))

(***************************************************************************)
(* Pydantic models (main.py lines 14-24)                                    *)
(***************************************************************************)

\* Tag(**raw): both fields are Optional and default to None.
Tag(raw) ==
    [type      |-> IF "type" \in DOMAIN raw THEN Some(raw.type) ELSE None,
     linked_id |-> IF "linked_id" \in DOMAIN raw THEN Some(raw.linked_id) ELSE None]

IsLeap(y) == (y % 4 = 0 /\ y % 100 # 0) \/ y % 400 = 0

DaysInMonth(y, m) ==
    IF m = 2 THEN (IF IsLeap(y) THEN 29 ELSE 28)
    ELSE IF m \in {4, 6, 9, 11} THEN 30 ELSE 31

\* The datetime field: an ISO-8601 string, here its fields <<year, month, day,
\* hour>>, is accepted when it names a real date and time.
ParseTimestamp(iso) ==
    IF /\ Len(iso) = 4
       /\ iso[1] \in 1..9999
       /\ iso[2] \in 1..12
       /\ iso[3] \in 1..DaysInMonth(iso[1], iso[2])
       /\ iso[4] \in 0..23
    THEN Return(datetime(iso[1], iso[2], iso[3], iso[4]))
    ELSE Raise("ValidationError")

\* Message(**item): every field is required.
Message(item) ==
    IF ~({"id", "timestamp", "sender", "role", "content", "tags"} \subseteq DOMAIN item)
        THEN Raise("ValidationError")
    ELSE
        LET ts == ParseTimestamp(item.timestamp)
        IN  IF Raised(ts) THEN ts
            ELSE Return([id        |-> item.id,
                         timestamp |-> ts.val,
                         sender    |-> item.sender,
                         role      |-> item.role,
                         content   |-> item.content,
                         tags      |-> Tag(item.tags)])

(***************************************************************************)
(* Data loading (main.py lines 79-88)                                       *)
(***************************************************************************)

\* open("journey_data.json") followed by json.load(f).
json_load(src) ==
    IF src.file = "missing" THEN Raise("FileNotFoundError")
    ELSE IF src.file = "garbage" THEN Raise("JSONDecodeError")
    ELSE Return(src.data)

\* [Message(**item) for item in data]: the first item that fails validation
\* raises out of the whole comprehension.
RECURSIVE BuildMessages(_)
BuildMessages(data) ==
    IF data = <<>> THEN Return(<<>>)
    ELSE
        LET m == Message(Head(data))
        IN  IF Raised(m) THEN m
            ELSE
                LET rest == BuildMessages(Tail(data))
                IN  IF Raised(rest) THEN rest ELSE Return(<<m.val>> \o rest.val)

\* A loader that keeps the records read before the first malformed one.
RECURSIVE load_journey_data_keeps_prefix(_)
load_journey_data_keeps_prefix(src) ==
    LET data == json_load(src)
    IN  IF Raised(data) \/ data.val = <<>> THEN <<>>
        ELSE
            LET m == Message(Head(data.val))
            IN  IF Raised(m) THEN <<>>
                ELSE <<m.val>> \o load_journey_data_keeps_prefix(
                                    [file |-> "json", data |-> Tail(data.val)])

\* load_journey_data(): any exception is caught and turned into the empty list.
load_journey_data(src) ==
    LET data == json_load(src)
    IN  IF Raised(data) THEN <<>>
        ELSE
            LET msgs == BuildMessages(data.val)
            IN  IF Raised(msgs) THEN <<>> ELSE msgs.val

(***************************************************************************)
(* Responses                                                                *)
(***************************************************************************)

\* raise HTTPException(status_code=..., detail=...). An f-string detail is kept
\* as its template; the interpolated value is the call's arg.
HTTPException(op, arg, status_code, detail) ==
    [op |-> op, arg |-> arg, status |-> status_code, detail |-> detail]

\* A returned value: HTTP 200. locals keeps the handler's intermediate list or
\* dict that the body was computed from.
Reply(op, arg, body, locals) ==
    [op |-> op, arg |-> arg, status |-> 200, body |-> body, locals |-> locals]

\* An exception no handler catches: the framework answers 500.
Unhandled(op, arg, exc) ==
    [op |-> op, arg |-> arg, status |-> 500, detail |-> "Internal Server Error",
     exc |-> exc]

(***************************************************************************)
(* Simulated analysis (main.py lines 91-127)                                *)
(***************************************************************************)

February2025 == <<"F","e","b","r","u","a","r","y"," ","2","0","2","5">>

May2025 == <<"M","a","y"," ","2","0","2","5">>

August2025 == <<"A","u","g","u","s","t"," ","2","0","2","5">>

\* get_ai_analysis: the pre-written analysis of the month when there is one,
\* the generic analysis otherwise; the messages are not read.
get_ai_analysis(month_name_, messages) ==
    IF month_name_ \in {February2025, May2025, August2025}
        THEN [month_name |-> month_name_, analysis |-> "pre_written"]
        ELSE [month_name |-> month_name_, analysis |-> "generic"]

PositiveWords == {
    <<"g","o","o","d">>,
    <<"e","x","c","e","l","l","e","n","t">>,
    <<"b","e","t","t","e","r">>,
    <<"p","o","w","e","r","f","u","l">>,
    <<"g","r","e","a","t">>,
    <<"s","u","c","c","e","s","s","f","u","l">> }

NegativeWords == {
    <<"i","s","s","u","e">>,
    <<"p","r","o","b","l","e","m">>,
    <<"a","n","x","i","o","u","s">>,
    <<"f","r","u","s","t","r","a","t","i","o","n">>,
    <<"s","e","t","b","a","c","k">>,
    <<"w","r","o","n","g">>,
    <<"n","o","t"," ","h","e","a","r","d">> }

\* A scorer that tests the negative lexicon first.
ScoreNegativeFirst(msg) ==
    LET content == lower(msg.content)
    IN  IF \E word \in NegativeWords : StrIn(word, content) THEN -1
        ELSE IF \E word \in PositiveWords : StrIn(word, content) THEN 1
        ELSE 0

\* Lines 110-115: the score of one message.
Score(msg) ==
    LET content == lower(msg.content)
    IN  IF \E word \in PositiveWords : StrIn(word, content) THEN 1
        ELSE IF \E word \in NegativeWords : StrIn(word, content) THEN -1
        ELSE 0

\* Lines 106-119: the dict month -> list of scores, built in load order.
RECURSIVE MonthlyScores(_, _)
MonthlyScores(msgs, acc) ==
    IF msgs = <<>> THEN acc
    ELSE
        LET month == strftime_Y_m(Head(msgs).timestamp)
            score == Score(Head(msgs))
            acc1  == IF month \notin DOMAIN acc THEN acc @@ (month :> <<>>) ELSE acc
        IN  MonthlyScores(Tail(msgs), [acc1 EXCEPT ![month] = Append(@, score)])

\* Line 105 and the loop of lines 108-119.
monthly_scores(M) ==
    MonthlyScores(SelectSeq(M, LAMBDA msg : msg.role = "Member"), <<>>)

\* A sort of the month keys in descending order.
SortedKeysDescending(keys) ==
    IF keys = {} THEN <<>>
    ELSE CHOOSE order \in [1..Cardinality(keys) -> keys] :
            /\ \A i, j \in DOMAIN order : i # j => order[i] # order[j]
            /\ \A i, j \in DOMAIN order : i < j => ~StrLess(order[i], order[j])

\* sorted(monthly_scores.items()): ascending by the key string.
RECURSIVE SortedKeys(_)
SortedKeys(keys) ==
    IF keys = {} THEN <<>>
    ELSE
        LET least == CHOOSE k \in keys : \A o \in keys : o = k \/ StrLess(k, o)
        IN  <<least>> \o SortedKeys(keys \ {least})

RECURSIVE sum(_)
sum(scores) == IF scores = <<>> THEN 0 ELSE Head(scores) + sum(Tail(scores))

\* round(total / n, 2), in hundredths: the nearest hundredth, a tie going to
\* the even one.
round2(total, n) ==
    LET a == IF total < 0 THEN -total ELSE total
        q == (100 * a) \div n
        r == (100 * a) % n
        h == IF 2 * r > n THEN q + 1
             ELSE IF 2 * r < n THEN q
             ELSE IF q % 2 = 0 THEN q ELSE q + 1
    IN  IF total < 0 THEN -h ELSE h

\* Lines 121-127: one SentimentPoint per month key.
SentimentPoints(scores_by_month, order) ==
    [i \in 1..Len(order) |->
        LET month  == order[i]
            scores == scores_by_month[month]
        IN  [month |-> strftime_b_Y(strptime_Y_m(month).val),
             score |-> round2(sum(scores), Len(scores))]]

get_sentiment_scores(M) ==
    SentimentPoints(monthly_scores(M), SortedKeys(DOMAIN monthly_scores(M)))

(***************************************************************************)
(* Endpoints (main.py lines 143-212), as functions of the store             *)
(***************************************************************************)

read_root == Reply("read_root", None, "Welcome to the Elyx Member Journey API", None)

get_all_messages(M) ==
    IF M = <<>>
        THEN HTTPException("get_all_messages", None, 404, "Journey data not loaded.")
        ELSE Reply("get_all_messages", None, M, None)

get_timeline_events(M) ==
    LET milestones == SelectSeq(M, LAMBDA msg : msg.tags.type = Some("milestone"))
    IN  IF milestones = <<>>
            THEN HTTPException("get_timeline_events", None, 404,
                               "No milestone events found.")
            ELSE Reply("get_timeline_events", None, milestones, None)

\* A lookup that accepts any entry with the id, whatever its tag.
get_decision_and_reasons_any_tag(M, message_id) ==
    LET found == SelectSeq(M, LAMBDA msg : msg.id = message_id)
        reason_messages ==
            SelectSeq(M, LAMBDA msg : /\ msg.tags.type = Some("reason")
                                     /\ msg.tags.linked_id = Some(message_id))
    IN  IF found = <<>>
            THEN HTTPException("get_decision_and_reasons", message_id, 404,
                               "Decision with ID {message_id} not found.")
            ELSE Reply("get_decision_and_reasons", message_id,
                       [decision |-> Head(found), reasons |-> reason_messages], None)

get_decision_and_reasons(M, message_id) ==
    LET found == SelectSeq(M, LAMBDA msg : /\ msg.id = message_id
                                           /\ msg.tags.type = Some("decision"))
        \* next(generator, None)
        decision_message == IF found = <<>> THEN None ELSE Some(Head(found))
        reason_messages ==
            SelectSeq(M, LAMBDA msg : /\ msg.tags.type = Some("reason")
                                     /\ msg.tags.linked_id = Some(message_id))
    IN  IF decision_message = None
            THEN HTTPException("get_decision_and_reasons", message_id, 404,
                               "Decision with ID {message_id} not found.")
            ELSE Reply("get_decision_and_reasons", message_id,
                       [decision |-> decision_message[1], reasons |-> reason_messages],
                       None)

\* Line 167 reads role_counts inside the comprehension that defines it: the
\* name is unbound when the first included message is reached, so the
\* comprehension raises NameError unless the filter lets no message through.
get_internal_metrics(M) ==
    LET included == SelectSeq(M, LAMBDA msg :
                                 msg.role \notin {"Member", "Personal Assistant"})
    IN  IF M = <<>>
            THEN HTTPException("get_internal_metrics", None, 404,
                               "Journey data not loaded.")
        ELSE IF included # <<>>
            THEN Unhandled("get_internal_metrics", None, "NameError")
        ELSE Reply("get_internal_metrics", None,
                   [total_elyx_team_interactions |-> 0,
                    interactions_by_role |-> <<>>], None)

\* The comprehension of line 173: both strptime calls are evaluated once per
\* message, so neither is evaluated when the store is empty.
RECURSIVE MonthMessages(_, _)
MonthMessages(msgs, month_name_) ==
    IF msgs = <<>> THEN Return(<<>>)
    ELSE
        LET lhs == strptime_B_Y(strftime_B_Y(Head(msgs).timestamp))
            rhs == strptime_B_Y(month_name_)
        IN  IF Raised(lhs) THEN lhs
            ELSE IF Raised(rhs) THEN rhs
            ELSE
                LET rest == MonthMessages(Tail(msgs), month_name_)
                IN  IF Raised(rest) THEN rest
                    ELSE Return((IF lhs.val = rhs.val THEN <<Head(msgs)>> ELSE <<>>)
                                \o rest.val)

\* A selection that compares the formatted timestamp with the label as strings.
MonthMessagesByString(msgs, month_name_) ==
    IF msgs # <<>> /\ Raised(strptime_B_Y(month_name_)) THEN Raise("ValueError")
    ELSE Return(SelectSeq(msgs, LAMBDA msg :
                              strftime_B_Y(msg.timestamp) = month_name_))

month_messages(M, month_name_) == MonthMessages(M, month_name_)

get_episode_analysis(M, month_name_) ==
    LET selected == month_messages(M, month_name_)
    IN  IF Raised(selected)
            THEN HTTPException("get_episode_analysis", month_name_, 400,
                               "Invalid month format. Use 'Month YYYY'.")
        ELSE IF selected.val = <<>>
            THEN HTTPException("get_episode_analysis", month_name_, 404,
                               "No data found for {month_name}.")
        ELSE Reply("get_episode_analysis", month_name_,
                   get_ai_analysis(month_name_, selected.val), selected.val)

get_sentiment_trend(M) ==
    IF M = <<>>
        THEN HTTPException("get_sentiment_trend", None, 404, "Journey data not loaded.")
        ELSE Reply("get_sentiment_trend", None, get_sentiment_scores(M),
                   monthly_scores(M))

\* get_weekly_report ignores end_date_str.
generate_weekly_report(M, end_date) ==
    IF M = <<>>
        THEN HTTPException("generate_weekly_report", end_date, 404,
                           "Journey data not loaded.")
        ELSE Reply("generate_weekly_report", end_date,
                   [week_of |-> "August 11, 2025", summary |-> "summary"], None)

\* Line 194: one transcript line per message, in load order.
conversation_context(M) ==
    [i \in 1..Len(M) |->
        [date |-> <<M[i].timestamp.year, M[i].timestamp.month, M[i].timestamp.day>>,
         sender |-> M[i].sender, content |-> M[i].content]]

\* The canned answer of a handler that absorbs generation failures.
FallbackAnswer == <<"unavailable">>

\* A chat handler that turns a failed or empty generation into a canned answer.
chat_with_agent_fallback(M, query, api_key, generation) ==
    LET arg == [query |-> query, api_key |-> api_key, generation |-> generation]
    IN  IF api_key # "set" \/ Raised(generation) \/ generation.val = <<>>
            THEN Reply("chat_with_agent", arg, [answer |-> FallbackAnswer],
                       conversation_context(M))
            ELSE Reply("chat_with_agent", arg, [answer |-> generation.val],
                       conversation_context(M))

\* api_key: what reading genai.api_key gives ("set", "unset", or "no_attribute"
\* when the client module has no such attribute). generation: the outcome of
\* GenerativeModel(...).generate_content(prompt) followed by response.text.
chat_with_agent(M, query, api_key, generation) ==
    LET arg == [query |-> query, api_key |-> api_key, generation |-> generation]
    IN  IF api_key = "no_attribute"
            THEN Unhandled("chat_with_agent", arg, "AttributeError")
        ELSE IF api_key = "unset"
            THEN HTTPException("chat_with_agent", arg, 500,
                               "Google API key is not configured on the server.")
        ELSE IF Raised(generation)
            THEN HTTPException("chat_with_agent", arg, 500,
                               "Error communicating with Google AI: {str(e)}")
        ELSE Reply("chat_with_agent", arg, [answer |-> generation.val],
                   conversation_context(M))

(***************************************************************************)
(* Inputs explored                                                          *)
(***************************************************************************)

RawItem(id, iso, role, content, tags) ==
    [id |-> id, timestamp |-> iso,
     sender |-> IF role = "Member" THEN "Rohan Patel" ELSE "Elyx Team",
     role |-> role, content |-> content, tags |-> tags]

GoodIssue == <<"G","o","o","d"," ","i","s","s","u","e">>

Great == <<"G","r","e","a","t">>

Wrong == <<"W","r","o","n","g">>

Okay == <<"o","k">>

Feb01 == <<2025, 2, 1, 9>>

Feb15 == <<2025, 2, 15, 18>>

Jan20 == <<2025, 1, 20, 9>>

Dec05 == <<2024, 12, 5, 9>>

Feb10LastYear == <<2024, 2, 10, 9>>

\* A record without its tags field, and one whose timestamp names month 13.
NoTagsItem ==
    [id |-> 5, timestamp |-> Feb01, sender |-> "Elyx Team", role |-> "Doctor",
     content |-> Okay]

BadDateItem == RawItem(6, <<2025, 13, 1, 9>>, "Doctor", Okay, <<>>)

MainPool == {
    RawItem(1, Feb01, "Member", GoodIssue, [type |-> "milestone"]),
    RawItem(2, Feb15, "Doctor", Okay, [type |-> "decision"]),
    RawItem(3, Jan20, "Personal Assistant", Wrong,
            [type |-> "reason", linked_id |-> 2]),
    RawItem(4, Dec05, "Member", Wrong, <<>>),
    NoTagsItem,
    BadDateItem }

DecisionPool ==
    { RawItem(id, Feb01, "Doctor", Okay, tags) :
        id \in {1, 2},
        tags \in { <<>>, [type |-> "decision"], [type |-> "milestone"],
                   [type |-> "reason", linked_id |-> 1],
                   [type |-> "reason", linked_id |-> 9] } }

EpisodePool ==
    { RawItem(1, iso, "Member", Okay, <<>>) :
        iso \in {Feb01, Feb15, Jan20, Feb10LastYear} }

ScorePool ==
    { RawItem(1, iso, "Member", content, <<>>) :
        iso \in {Feb01, Jan20}, content \in {GoodIssue, Great, Wrong, Okay} }
    \cup { RawItem(1, iso, "Doctor", Wrong, <<>>) : iso \in {Feb01, Jan20} }

TrendPool ==
    { RawItem(1, iso, "Member", content, <<>>) :
        iso \in {Feb01, Jan20, Dec05}, content \in {Great, Wrong, Okay} }
    \cup { RawItem(1, Feb01, "Doctor", Great, <<>>) }

SeqsUpTo(S, n) == UNION { [1..k -> S] : k \in 0..n }

Sources(pool) ==
    { [file |-> "missing"], [file |-> "garbage"] }
    \cup { [file |-> "json", data |-> data] : data \in SeqsUpTo(pool, MaxLen) }

MessageIds == {1, 2, 9}

february2025 == <<"f","e","b","r","u","a","r","y"," ","2","0","2","5">>

FEBRUARY2025Wide == <<"F","E","B","R","U","A","R","Y"," "," ","2","0","2","5">>

Feb2025 == <<"F","e","b"," ","2","0","2","5">>

NotAMonth == <<"N","o","t"," ","A"," ","M","o","n","t","h">>

December2099 == <<"D","e","c","e","m","b","e","r"," ","2","0","9","9">>

January2025 == <<"J","a","n","u","a","r","y"," ","2","0","2","5">>

February25 == <<"F","e","b","r","u","a","r","y"," ","2","5">>

MainLabels == {February2025, NotAMonth, December2099}

EpisodeLabels ==
    {February2025, february2025, FEBRUARY2025Wide, Feb2025, NotAMonth,
     December2099, January2025, February25}

EndDates == {"2025-08-18", "2025-08-25"}

Queries == {<<"w","h","y">>}

ApiKeyStates == {"set", "unset", "no_attribute"}

Generations == {Raise("ServiceUnavailable"), Return(<<>>), Return(<<"o","k">>)}

(***************************************************************************)
(* The state machine                                                        *)
(***************************************************************************)

\* Before line 88 has run: the file is whatever it is, MESSAGES is not bound
\* yet (held here as the empty list), and no request has been answered.
InitFrom(pool) ==
    /\ source \in Sources(pool)
    /\ MESSAGES = <<>>
    /\ pc = "import"
    /\ response = [op |-> "none"]

\* Line 88, run once when the module is imported, before any request is served.
LoadJourneyData ==
    /\ pc = "import"
    /\ MESSAGES' = load_journey_data(source)
    /\ pc' = "serving"
    /\ UNCHANGED <<source, response>>

ReadRoot ==
    /\ pc = "serving"
    /\ response' = read_root
    /\ UNCHANGED <<source, MESSAGES, pc>>

GetAllMessages ==
    /\ pc = "serving"
    /\ response' = get_all_messages(MESSAGES)
    /\ UNCHANGED <<source, MESSAGES, pc>>

\* A handler that narrows the shared list instead of building a new one.
GetTimelineEventsInPlace ==
    /\ pc = "serving"
    /\ response' = get_timeline_events(MESSAGES)
    /\ MESSAGES' = SelectSeq(MESSAGES, LAMBDA msg : msg.tags.type = Some("milestone"))
    /\ UNCHANGED <<source, pc>>

GetTimelineEvents ==
    /\ pc = "serving"
    /\ response' = get_timeline_events(MESSAGES)
    /\ UNCHANGED <<source, MESSAGES, pc>>

GetDecisionAndReasons(message_id) ==
    /\ pc = "serving"
    /\ response' = get_decision_and_reasons(MESSAGES, message_id)
    /\ UNCHANGED <<source, MESSAGES, pc>>

GetInternalMetrics ==
    /\ pc = "serving"
    /\ response' = get_internal_metrics(MESSAGES)
    /\ UNCHANGED <<source, MESSAGES, pc>>

GetEpisodeAnalysis(month_name_) ==
    /\ pc = "serving"
    /\ response' = get_episode_analysis(MESSAGES, month_name_)
    /\ UNCHANGED <<source, MESSAGES, pc>>

GetSentimentTrend ==
    /\ pc = "serving"
    /\ response' = get_sentiment_trend(MESSAGES)
    /\ UNCHANGED <<source, MESSAGES, pc>>

GenerateWeeklyReport(end_date) ==
    /\ pc = "serving"
    /\ response' = generate_weekly_report(MESSAGES, end_date)
    /\ UNCHANGED <<source, MESSAGES, pc>>

ChatWithAgent(query, api_key, generation) ==
    /\ pc = "serving"
    /\ response' = chat_with_agent(MESSAGES, query, api_key, generation)
    /\ UNCHANGED <<source, MESSAGES, pc>>

Init == InitFrom(MainPool)

Next ==
    \/ LoadJourneyData
    \/ ReadRoot
    \/ GetAllMessages
    \/ GetTimelineEvents
    \/ \E message_id \in MessageIds : GetDecisionAndReasons(message_id)
    \/ GetInternalMetrics
    \/ \E month_name_ \in MainLabels : GetEpisodeAnalysis(month_name_)
    \/ GetSentimentTrend
    \/ \E end_date \in EndDates : GenerateWeeklyReport(end_date)
    \/ \E query \in Queries, api_key \in ApiKeyStates, generation \in Generations :
            ChatWithAgent(query, api_key, generation)

Spec == Init /\ [][Next]_vars

\* The decision lookup over stores that vary ids, tag types and links.
InitDecision == InitFrom(DecisionPool)

NextDecision ==
    \/ LoadJourneyData
    \/ \E message_id \in MessageIds : GetDecisionAndReasons(message_id)
    \/ GetTimelineEvents

SpecDecision == InitDecision /\ [][NextDecision]_vars

\* The month selection over stores that vary timestamps, and more labels.
InitEpisode == InitFrom(EpisodePool)

NextEpisode ==
    \/ LoadJourneyData
    \/ \E month_name_ \in EpisodeLabels : GetEpisodeAnalysis(month_name_)

SpecEpisode == InitEpisode /\ [][NextEpisode]_vars

\* The sentiment scorer over stores that vary role and content.
InitScore == InitFrom(ScorePool)

NextSentiment ==
    \/ LoadJourneyData
    \/ GetSentimentTrend

SpecScore == InitScore /\ [][NextSentiment]_vars

\* The monthly aggregation over stores that vary month and score.
InitTrend == InitFrom(TrendPool)

SpecTrend == InitTrend /\ [][NextSentiment]_vars

(***************************************************************************)
(* Properties                                                               *)
(***************************************************************************)

\* The last call was to op and has been answered.
Served(op) == pc = "serving" /\ response.op = op

\* The n-th smallest member of a set of indices.
Kth(idx, n) == CHOOSE i \in idx : Cardinality({j \in idx : j < i}) = n - 1

\* seq is exactly the entries of M at the indices idx, in the order of M.
IsSelection(seq, M, idx) ==
    /\ Len(seq) = Cardinality(idx)
    /\ \A n \in 1..Len(seq) : seq[n] = M[Kth(idx, n)]

HasPositive(msg) == \E word \in PositiveWords : StrIn(word, lower(msg.content))

HasNegative(msg) == \E word \in NegativeWords : StrIn(word, lower(msg.content))

MemberIdx == {i \in 1..Len(MESSAGES) : MESSAGES[i].role = "Member"}

C2_InvalidVsNotFound ==
    Served("get_episode_analysis") =>
        LET parsed == strptime_B_Y(response.arg)
        IN  /\ Raised(parsed) => response.status = 400
            /\ response.status = 404 =>
                   /\ ~Raised(parsed)
                   /\ \A i \in 1..Len(MESSAGES) :
                          \/ MESSAGES[i].timestamp.year # parsed.val.year
                          \/ MESSAGES[i].timestamp.month # parsed.val.month

StaffRoles ==
    {MESSAGES[i].role : i \in 1..Len(MESSAGES)} \ {"Member", "Personal Assistant"}

RECURSIVE SumOver(_, _)
SumOver(f, keys) ==
    IF keys = {} THEN 0
    ELSE LET k == CHOOSE x \in keys : TRUE IN f[k] + SumOver(f, keys \ {k})

(* C3: on a non-empty store the metrics query returns a mapping whose keys  *)
(* are the roles of the store other than "Member" and "Personal Assistant", *)
(* each mapped to its number of entries, and a total equal to their sum.    *)
C3_MetricsCountByRole ==
    (Served("get_internal_metrics") /\ MESSAGES # <<>>) =>
        /\ response.status = 200
        /\ DOMAIN response.body.interactions_by_role = StaffRoles
        /\ \A r \in StaffRoles :
               response.body.interactions_by_role[r]
                   = Cardinality({i \in 1..Len(MESSAGES) : MESSAGES[i].role = r})
        /\ response.body.total_elyx_team_interactions
               = SumOver(response.body.interactions_by_role, StaffRoles)

StoreQueries ==
    {"get_all_messages", "get_timeline_events", "get_decision_and_reasons",
     "get_internal_metrics", "get_episode_analysis", "get_sentiment_trend"}

DataUnavailable(r) == r.status = 404 /\ r.detail = "Journey data not loaded."

(* C4: every store query answers the empty store with the DataUnavailable   *)
(* signal, and answers a non-empty store, zero matches included, with       *)
(* something else.                                                          *)
C4_EmptyStoreDistinct ==
    (pc = "serving" /\ response.op \in StoreQueries) =>
        (MESSAGES = <<>> <=> DataUnavailable(response))

\* The list the episode query selected (none is returned with a 404).
Selected(r) == IF r.status = 200 THEN r.locals ELSE <<>>

(* C5, as the spec states it: the episode query selects exactly the         *)
(* entries, in load order, whose timestamp formatted as "Month Year" is the *)
(* same string as the label, so a label in another letter case selects      *)
(* nothing.                                                                 *)
C5_CaseSensitiveLabel ==
    (Served("get_episode_analysis") /\ response.status # 400) =>
        IsSelection(Selected(response), MESSAGES,
                    {i \in 1..Len(MESSAGES) :
                        strftime_B_Y(MESSAGES[i].timestamp) = response.arg})

YearsExplored == {2024, 2025, 2099}

\* label reads as month m of year y: the month's full name in any letter
\* case, one or two spaces, the year in four digits.
Denotes(label, y, m) ==
    \E gap \in {<<" ">>, <<" ", " ">>} :
        lower(label) = lower(month_name[m]) \o gap \o FormatY(y)

(* C5, as the code has it: the episode query selects exactly the entries,   *)
(* in load order, whose timestamp lies in the month and year the label      *)
(* denotes, the month name being read in any letter case; the day and the   *)
(* time of day play no part.                                                *)
C5_MonthSelection ==
    (Served("get_episode_analysis") /\ response.status # 400) =>
        /\ MESSAGES # <<>> =>
               \E y \in YearsExplored, m \in 1..12 : Denotes(response.arg, y, m)
        /\ \A y \in YearsExplored, m \in 1..12 :
               Denotes(response.arg, y, m) =>
                   IsSelection(Selected(response), MESSAGES,
                               {i \in 1..Len(MESSAGES) :
                                   /\ MESSAGES[i].timestamp.year = y
                                   /\ MESSAGES[i].timestamp.month = m})

C5_Witness ==
    /\ Served("get_episode_analysis")
    /\ response.arg = february2025
    /\ response.status = 200
    /\ Len(MESSAGES) = 3
    /\ Len(response.locals) = 2
    /\ response.locals[1].timestamp.day # response.locals[2].timestamp.day

DecisionIdx(message_id) ==
    {i \in 1..Len(MESSAGES) :
        /\ MESSAGES[i].id = message_id
        /\ MESSAGES[i].tags.type = Some("decision")}

ReasonIdx(message_id) ==
    {i \in 1..Len(MESSAGES) :
        /\ MESSAGES[i].tags.type = Some("reason")
        /\ MESSAGES[i].tags.linked_id = Some(message_id)}

\* Entry i links to an id that no entry of the store has.
Dangling(i) ==
    /\ MESSAGES[i].tags.linked_id # None
    /\ \A j \in 1..Len(MESSAGES) : Some(MESSAGES[j].id) # MESSAGES[i].tags.linked_id

(* C6: the decision lookup answers NotFound exactly when no entry has the   *)
(* id with tag type "decision"; otherwise it returns that decision and, in  *)
(* load order, exactly the reasons linked to the id, possibly none; and no  *)
(* call ends in anything but a result or NotFound, dangling links or not.   *)
C6_DecisionLookup ==
    /\ (pc = "serving" /\ response.op # "none") => response.status \in {200, 404}
    /\ Served("get_decision_and_reasons") =>
           /\ response.status = 404 <=> DecisionIdx(response.arg) = {}
           /\ response.status = 200 =>
                  /\ response.body.decision
                         = MESSAGES[Kth(DecisionIdx(response.arg), 1)]
                  /\ IsSelection(response.body.reasons, MESSAGES,
                                 ReasonIdx(response.arg))

C6_Witness ==
    /\ Served("get_decision_and_reasons")
    /\ response.status = 200
    /\ response.body.reasons = <<>>
    /\ \E i \in 1..Len(MESSAGES) :
           Dangling(i) /\ MESSAGES[i].tags.type = Some("reason")

\* The score the claim gives an entry.
ClaimedScore(msg) ==
    IF HasPositive(msg) THEN 1 ELSE IF HasNegative(msg) THEN -1 ELSE 0

MonthIdx(key) == {i \in MemberIdx : strftime_Y_m(MESSAGES[i].timestamp) = key}

(* C7: the sentiment query scores each Member entry +1 when its lower-cased *)
(* content contains a positive keyword, else -1 when it contains a negative *)
(* keyword, else 0, so an entry with both scores +1; entries of other roles *)
(* are scored nowhere.                                                      *)
C7_EntryScores ==
    (Served("get_sentiment_trend") /\ response.status = 200) =>
        LET scores == response.locals
        IN  /\ DOMAIN scores
                   = {strftime_Y_m(MESSAGES[i].timestamp) : i \in MemberIdx}
            /\ \A key \in DOMAIN scores :
                   /\ Len(scores[key]) = Cardinality(MonthIdx(key))
                   /\ \A n \in 1..Len(scores[key]) :
                          LET msg == MESSAGES[Kth(MonthIdx(key), n)]
                          IN  /\ scores[key][n] = ClaimedScore(msg)
                              /\ (HasPositive(msg) /\ HasNegative(msg))
                                     => scores[key][n] = 1

C7_Witness ==
    /\ Served("get_sentiment_trend")
    /\ response.status = 200
    /\ Len(MESSAGES) = 2
    /\ MESSAGES[1].role = "Member"
    /\ HasPositive(MESSAGES[1]) /\ HasNegative(MESSAGES[1])
    /\ MESSAGES[2].role # "Member"
    /\ HasNegative(MESSAGES[2])
    /\ MESSAGES[2].timestamp = MESSAGES[1].timestamp
    /\ response.locals[strftime_Y_m(MESSAGES[1].timestamp)] = <<1>>

MemberMonths ==
    {<<MESSAGES[i].timestamp.year, MESSAGES[i].timestamp.month>> : i \in MemberIdx}

InMonth(ym) ==
    {i \in MemberIdx : /\ MESSAGES[i].timestamp.year = ym[1]
                       /\ MESSAGES[i].timestamp.month = ym[2]}

ClaimedTotal(ym) ==
    SumOver([i \in InMonth(ym) |-> ClaimedScore(MESSAGES[i])], InMonth(ym))

\* The month a point reports, read back from its "Mon YYYY" label.
MonthOf(point) ==
    CHOOSE ym \in MemberMonths :
        point.month = month_abbr[ym[2]] \o <<" ">> \o FormatY(ym[1])

Before(a, b) == a[1] < b[1] \/ (a[1] = b[1] /\ a[2] < b[2])

Abs(x) == IF x < 0 THEN -x ELSE x

(* C8: the sentiment query returns one point per calendar month that holds  *)
(* a Member entry, in ascending chronological order, each score (here in    *)
(* hundredths) being the mean of the month's entry scores rounded to two    *)
(* decimals and so between -1 and 1.                                        *)
C8_MonthlyTrend ==
    (Served("get_sentiment_trend") /\ response.status = 200) =>
        LET points == response.body
        IN  /\ Len(points) = Cardinality(MemberMonths)
            /\ \A i \in 1..Len(points) :
                   /\ \E ym \in MemberMonths :
                          points[i].month
                              = month_abbr[ym[2]] \o <<" ">> \o FormatY(ym[1])
                   /\ LET ym == MonthOf(points[i])
                          n  == Cardinality(InMonth(ym))
                      IN  2 * Abs(n * points[i].score - 100 * ClaimedTotal(ym)) <= n
                   /\ points[i].score \in -100..100
            /\ \A i, j \in 1..Len(points) :
                   i < j => Before(MonthOf(points[i]), MonthOf(points[j]))

C8_Witness ==
    /\ Served("get_sentiment_trend")
    /\ response.status = 200
    /\ Len(MESSAGES) = 3
    /\ response.locals[strftime_Y_m(MESSAGES[1].timestamp)] = <<1, -1, 1>>
    /\ response.body = <<[month |-> <<"F","e","b"," ","2","0","2","5">>, score |-> 33]>>

\* The source parsed and every record in it fits the Message shape.
SourceWellFormed ==
    /\ source.file = "json"
    /\ \A i \in 1..Len(source.data) : ~Raised(Message(source.data[i]))

(* C9: the load never fails; its result is the empty store when the source  *)
(* is missing, unparseable or holds a record that does not fit, never a     *)
(* prefix of the valid records, and otherwise every record in source order, *)
(* which is the order the all-messages query returns.                       *)
C9_LoadAllOrNothing ==
    /\ pc = "import" => ENABLED LoadJourneyData
    /\ pc = "serving" =>
           /\ ~SourceWellFormed => MESSAGES = <<>>
           /\ SourceWellFormed =>
                  /\ Len(MESSAGES) = Len(source.data)
                  /\ \A i \in 1..Len(MESSAGES) :
                         /\ MESSAGES[i].id = source.data[i].id
                         /\ MESSAGES[i].role = source.data[i].role
                         /\ MESSAGES[i].content = source.data[i].content
                         /\ MESSAGES[i].timestamp.day = source.data[i].timestamp[3]
           /\ (response.op = "get_all_messages" /\ response.status = 200) =>
                  /\ Len(response.body) = Len(source.data)
                  /\ \A i \in 1..Len(response.body) :
                         response.body[i].id = source.data[i].id

C9_Witness ==
    /\ Served("get_all_messages")
    /\ source.file = "json"
    /\ Len(source.data) = 3
    /\ ~Raised(Message(source.data[1]))
    /\ ~Raised(Message(source.data[2]))
    /\ Raised(Message(source.data[3]))
    /\ MESSAGES = <<>>
    /\ response.status = 404

(* C10: the store is written by the load alone, before any query is         *)
(* answered; once serving, no call changes it, calls that end in an error   *)
(* included, and a query repeated with the same argument gets the same      *)
(* answer.                                                                  *)
C10_StoreImmutable ==
    [][ /\ pc = "import" => response' = response
        /\ pc = "serving" => (MESSAGES' = MESSAGES /\ pc' = "serving")
        /\ (/\ response.op # "none"
            /\ response'.op = response.op
            /\ response'.arg = response.arg) => response' = response ]_vars

C10_Witness ==
    /\ Served("get_decision_and_reasons")
    /\ response.status = 404
    /\ Len(MESSAGES) = MaxLen

====
